---- MODULE Spec2Model ----
(***************************************************************************)
(* Model of the patch-application engine of pkgs/dap/dap.py:               *)
(* the block matcher (find_occurrences), the preflight validator           *)
(* (run_preflight_checks), the executor (apply_patch) and the gate and     *)
(* apply loop of main.                                                     *)
(*                                                                         *)
(* Text is a sequence of one-character strings.  The alphabet of the model *)
(* is "a", "b", space, line feed and form feed; it has no carriage return. *)
(* Line indices are 0-based, as in the Python source.                      *)
(***************************************************************************)
EXTENDS Integers, Sequences, FiniteSets, TLC

SP == " "
LF == "\n"
FF == "\f"
CR == "\r"

\* str.strip() without arguments removes these (those of the model alphabet).
Whitespace == {SP, LF, FF, CR, "\t"}
\* str.strip("\n\r") / str.rstrip("\n\r") remove these.
NewlineChars == {LF, CR}
\* str.splitlines() ends a line at each of these (those of the model alphabet).
LineBoundaries == {LF, FF}
\* file.readlines() ends a line at a line feed only.
FileLineEnd == {LF}

----------------------------------------------------------------------------
(* Python string primitives *)

RECURSIVE LStripSet(_, _)
LStripSet(s, cs) ==
    IF s # <<>> /\ Head(s) \in cs THEN LStripSet(Tail(s), cs) ELSE s

RECURSIVE RStripSet(_, _)
RStripSet(s, cs) ==
    IF s # <<>> /\ s[Len(s)] \in cs
    THEN RStripSet(SubSeq(s, 1, Len(s) - 1), cs)
    ELSE s

StripSet(s, cs) == RStripSet(LStripSet(s, cs), cs)

\* s.strip()
Strip(s) == StripSet(s, Whitespace)

\* Index of the first character of s that is in cs, or Len(s) + 1.
RECURSIVE FirstIn(_, _, _)
FirstIn(s, cs, i) ==
    IF i > Len(s) THEN Len(s) + 1
    ELSE IF s[i] \in cs THEN i
    ELSE FirstIn(s, cs, i + 1)

\* Split s after each character of cs, keeping the line ends.
RECURSIVE SplitKeep(_, _)
SplitKeep(s, cs) ==
    IF s = <<>> THEN <<>>
    ELSE LET k == FirstIn(s, cs, 1)
             e == IF k > Len(s) THEN Len(s) ELSE k
         IN  <<SubSeq(s, 1, e)>> \o SplitKeep(SubSeq(s, e + 1, Len(s)), cs)

\* f.readlines()
Readlines(content) == SplitKeep(content, FileLineEnd)

\* s.splitlines(True)
SplitlinesKeepends(s) == SplitKeep(s, LineBoundaries)

\* s.splitlines()
Splitlines(s) ==
    LET ls == SplitKeep(s, LineBoundaries)
    IN  [i \in 1..Len(ls) |->
            IF ls[i][Len(ls[i])] \in LineBoundaries
            THEN SubSeq(ls[i], 1, Len(ls[i]) - 1)
            ELSE ls[i]]

\* "".join(lines) / f.writelines(lines)
RECURSIVE Concat(_)
Concat(ls) == IF ls = <<>> THEN <<>> ELSE Head(ls) \o Concat(Tail(ls))

----------------------------------------------------------------------------
(* Block matcher *)

\* _find_sublist: every 0-based start index of sub_list in full_list, ascending.
RECURSIVE FindSublistFrom(_, _, _)
FindSublistFrom(full_list, sub_list, i) ==
    LET n == Len(full_list)
        m == Len(sub_list)
    IN  IF i > n - m THEN <<>>
        ELSE (IF SubSeq(full_list, i + 1, i + m) = sub_list THEN <<i>> ELSE <<>>)
             \o FindSublistFrom(full_list, sub_list, i + 1)

FindSublist(full_list, sub_list) ==
    IF Len(sub_list) = 0 THEN <<>> ELSE FindSublistFrom(full_list, sub_list, 0)

\* find_occurrences, line 202: the source lines without their line ends.
SrcStrict(source_lines) ==
    [i \in 1..Len(source_lines) |-> RStripSet(source_lines[i], NewlineChars)]

\* find_occurrences, line 217: the source lines stripped on both sides.
SrcLoose(source_lines) ==
    [i \in 1..Len(source_lines) |-> Strip(source_lines[i])]

\* find_occurrences, lines 209-211 and 219: the lines of the search block
\* without its leading and trailing line breaks.
TrimmedLines(search_block_str) ==
    Splitlines(StripSet(search_block_str, NewlineChars))

\* find_occurrences, line 221: those lines stripped on both sides.
LooseLines(search_block_str) ==
    LET search_lines_trimmed == TrimmedLines(search_block_str)
    IN  [i \in 1..Len(search_lines_trimmed) |-> Strip(search_lines_trimmed[i])]

\* find_occurrences that goes straight to the loose tier.
FindOccurrencesLooseOnly(source_lines, search_block_str) ==
    IF LooseLines(search_block_str) = <<>>
    THEN [matches |-> <<>>, length |-> 0]
    ELSE [matches |-> FindSublist(SrcLoose(source_lines),
                                  LooseLines(search_block_str)),
          length |-> Len(TrimmedLines(search_block_str))]

\* find_occurrences without the loose tier.
FindOccurrencesNoLoose(source_lines, search_block_str) ==
    LET strict == FindSublist(SrcStrict(source_lines),
                              Splitlines(search_block_str))
        trimmed == FindSublist(SrcStrict(source_lines),
                               TrimmedLines(search_block_str))
    IN  IF strict # <<>>
        THEN [matches |-> strict, length |-> Len(Splitlines(search_block_str))]
        ELSE [matches |-> trimmed,
              length |-> Len(TrimmedLines(search_block_str))]

\* find_occurrences that reports the line count of the untrimmed search
\* block for every tier.
FindOccurrencesStrictLength(source_lines, search_block_str) ==
    LET strict == FindSublist(SrcStrict(source_lines),
                              Splitlines(search_block_str))
        trimmed == FindSublist(SrcStrict(source_lines),
                               TrimmedLines(search_block_str))
        loose == FindSublist(SrcLoose(source_lines),
                             LooseLines(search_block_str))
        matches == IF strict # <<>> THEN strict
                   ELSE IF trimmed # <<>> THEN trimmed
                   ELSE loose
    IN  [matches |-> matches,
         length |-> IF matches = <<>> /\ LooseLines(search_block_str) = <<>>
                    THEN 0 ELSE Len(Splitlines(search_block_str))]

\* find_occurrences: the matches of the first tier that has any, and the
\* number of search lines of that tier.
FindOccurrences(source_lines, search_block_str) ==
    LET src_strict == SrcStrict(source_lines)
        search_lines_strict == Splitlines(search_block_str)
        strict == FindSublist(src_strict, search_lines_strict)
        search_block_stripped == StripSet(search_block_str, NewlineChars)
        search_lines_trimmed == TrimmedLines(search_block_str)
        trimmed == IF search_block_stripped # search_block_str
                      /\ search_lines_trimmed # <<>>
                   THEN FindSublist(src_strict, search_lines_trimmed)
                   ELSE <<>>
        search_lines_loose == LooseLines(search_block_str)
    IN  IF strict # <<>>
        THEN [matches |-> strict, length |-> Len(search_lines_strict)]
        ELSE IF trimmed # <<>>
        THEN [matches |-> trimmed, length |-> Len(search_lines_trimmed)]
        ELSE IF search_lines_loose = <<>>
        THEN [matches |-> <<>>, length |-> 0]
        ELSE [matches |-> FindSublist(SrcLoose(source_lines), search_lines_loose),
              length |-> Len(search_lines_trimmed)]

----------------------------------------------------------------------------
(* Filesystem: a node per path *)

Absent == [kind |-> "absent", content |-> <<>>]
\* A path that exists but that open() refuses (a directory).
Dir == [kind |-> "dir", content |-> <<>>]
File(c) == [kind |-> "file", content |-> c]

\* os.path.exists
Exists(fsys, p) == fsys[p].kind # "absent"

\* os.path.dirname, on the path names of the model: "d/h" lies in "d", the
\* other names have no directory part.
Dirname(p) == IF p = "d/h" THEN "d" ELSE ""

\* open(p) fails with NotADirectoryError: the parent of p is a file.
NotADirectory(fsys, p) == Dirname(p) # "" /\ fsys[Dirname(p)].kind = "file"

\* An Edit record, as the parsers yield it.
Edit(p, s, r, d) ==
    [file_path |-> p, search_block |-> s, replace_block |-> r, delete_file |-> d]

\* An Edit that also carries a move_destination, as the tests build it;
\* patch.get("delete_file", False) reads its missing delete_file as False.
MoveEdit(p, dest) ==
    [file_path |-> p, search_block |-> <<>>, replace_block |-> <<>>,
     delete_file |-> FALSE, move_destination |-> dest]

IsDelete(patch) == patch.delete_file
IsCreate(patch) == ~patch.delete_file /\ Strip(patch.search_block) = <<>>
IsReplace(patch) == ~patch.delete_file /\ Strip(patch.search_block) # <<>>

----------------------------------------------------------------------------
(* Preflight validator *)

NoError == [patch |-> 0, msg |-> "OK", count |-> 0]
Error(i, m, c) == [patch |-> i, msg |-> m, count |-> c]

\* run_preflight_checks, lines 259-264: a delete Edit.
PreflightDelete(fsys, patch, i) ==
    IF Exists(fsys, patch.file_path)
    THEN NoError
    ELSE Error(i, "File not found, cannot delete", 0)

\* PreflightCreate without the look at the content of an existing file.
PreflightCreateNoGuard(fsys, patch, i) ==
    IF fsys[patch.file_path].kind = "dir"
    THEN Error(i, "Could not read existing file", 0)
    ELSE NoError

\* run_preflight_checks, lines 266-286: an Edit with an empty search block.
PreflightCreate(fsys, patch, i) ==
    LET node == fsys[patch.file_path]
    IN  IF ~Exists(fsys, patch.file_path) THEN NoError
        ELSE IF node.kind = "dir"
        THEN Error(i, "Could not read existing file", 0)
        ELSE IF Strip(node.content) = <<>> THEN NoError
        ELSE Error(i, "Search block is empty, but target file is not empty", 0)

\* PreflightReplace that accepts any positive number of matches.
PreflightReplaceAcceptsAmbiguous(fsys, patch, i) ==
    LET node == fsys[patch.file_path]
    IN  IF ~Exists(fsys, patch.file_path)
        THEN Error(i, "File not found", 0)
        ELSE IF node.kind = "dir"
        THEN Error(i, "Could not read file", 0)
        ELSE IF FindOccurrences(Readlines(node.content),
                                patch.search_block).matches = <<>>
        THEN Error(i, "Search block not found", 0)
        ELSE NoError

\* run_preflight_checks, lines 288-309: an Edit with a search block.
PreflightReplace(fsys, patch, i) ==
    LET node == fsys[patch.file_path]
    IN  IF ~Exists(fsys, patch.file_path)
        THEN Error(i, "File not found", 0)
        ELSE IF node.kind = "dir"
        THEN Error(i, "Could not read file", 0)
        ELSE LET count == Len(FindOccurrences(Readlines(node.content),
                                              patch.search_block).matches)
             IN  IF count = 0 THEN Error(i, "Search block not found", 0)
                 ELSE IF count > 1
                 THEN Error(i, "Search block is ambiguous, found N times", count)
                 ELSE NoError

\* PreflightOne that looks at delete_file only when the search block is empty.
PreflightOneSearchFirst(fsys, patch, i) ==
    IF Strip(patch.search_block) # <<>> THEN PreflightReplace(fsys, patch, i)
    ELSE IF patch.delete_file THEN PreflightDelete(fsys, patch, i)
    ELSE PreflightCreate(fsys, patch, i)

\* The body of the loop of run_preflight_checks for patch number i:
\* the error it appends, or NoError.
PreflightOne(fsys, patch, i) ==
    IF patch.delete_file THEN PreflightDelete(fsys, patch, i)
    ELSE IF Strip(patch.search_block) = <<>> THEN PreflightCreate(fsys, patch, i)
    ELSE PreflightReplace(fsys, patch, i)

\* run_preflight_checks: the errors of all patches, in batch order.
RECURSIVE PreflightFrom(_, _, _)
PreflightFrom(fsys, ps, i) ==
    IF i > Len(ps) THEN <<>>
    ELSE LET e == PreflightOne(fsys, ps[i], i)
         IN  (IF e = NoError THEN <<>> ELSE <<e>>) \o PreflightFrom(fsys, ps, i + 1)

\* run_preflight_checks that stops at the first failing patch.
RunPreflightChecksFirstOnly(fsys, ps) ==
    LET all == PreflightFrom(fsys, ps, 1)
    IN  IF all = <<>> THEN <<>> ELSE <<all[1]>>

RunPreflightChecks(fsys, ps) == PreflightFrom(fsys, ps, 1)

----------------------------------------------------------------------------
(* Executor *)

Result(r, fsys) == [ret |-> r, fs |-> fsys]

\* ApplyDelete without the dry-run return.
ApplyDeleteIgnoresDry(fsys, patch, dry) ==
    IF fsys[patch.file_path].kind = "file"
    THEN Result("true", [fsys EXCEPT ![patch.file_path] = Absent])
    ELSE Result("false", fsys)

\* apply_patch, lines 329-339: a delete Edit.
ApplyDelete(fsys, patch, dry) ==
    IF dry THEN Result("true", fsys)
    ELSE IF fsys[patch.file_path].kind = "file"
    THEN Result("true", [fsys EXCEPT ![patch.file_path] = Absent])
    ELSE Result("false", fsys)

\* apply_patch, lines 341-357: an Edit with an empty search block.
\* ApplyCreate without the os.makedirs call: open() fails in a missing
\* directory.
ApplyCreateNoMakedirs(fsys, patch, dry) ==
    IF dry THEN Result("true", fsys)
    ELSE IF Dirname(patch.file_path) # ""
            /\ fsys[Dirname(patch.file_path)].kind # "dir"
    THEN Result("false", fsys)
    ELSE IF fsys[patch.file_path].kind = "dir" THEN Result("false", fsys)
    ELSE Result("true",
                [fsys EXCEPT ![patch.file_path] = File(patch.replace_block)])

\* os.makedirs(parent_dir, exist_ok=True) when the parent does not exist;
\* open(file_path, "w") then fails when the parent is not a directory or
\* the target is one.
ApplyCreate(fsys, patch, dry) ==
    IF dry THEN Result("true", fsys)
    ELSE LET parent_dir == Dirname(patch.file_path)
             made == IF parent_dir # "" /\ ~Exists(fsys, parent_dir)
                     THEN [fsys EXCEPT ![parent_dir] = Dir]
                     ELSE fsys
         IN  IF parent_dir # "" /\ made[parent_dir].kind # "dir"
             THEN Result("false", made)
             ELSE IF made[patch.file_path].kind = "dir"
             THEN Result("false", made)
             ELSE Result("true", [made EXCEPT ![patch.file_path] =
                                      File(patch.replace_block)])

\* apply_patch, lines 374-391: the splice and the write.
Splice(fsys, patch, source_lines, found) ==
    LET start_idx == found.matches[1]
        end_idx == start_idx + found.length
        replace_lines == SplitlinesKeepends(patch.replace_block)
        new_lines == SubSeq(source_lines, 1, start_idx)
                     \o replace_lines
                     \o SubSeq(source_lines, end_idx + 1, Len(source_lines))
    IN  Result("true", [fsys EXCEPT ![patch.file_path] = File(Concat(new_lines))])

\* ApplyReplace that reports success when the search block is not found.
ApplyReplaceIgnoresMiss(fsys, patch, dry) ==
    LET node == fsys[patch.file_path]
    IN  IF NotADirectory(fsys, patch.file_path) THEN Result("raise", fsys)
        ELSE IF node.kind = "absent" THEN Result("false", fsys)
        ELSE IF node.kind = "dir" THEN Result("raise", fsys)
        ELSE LET source_lines == Readlines(node.content)
                 found == FindOccurrences(source_lines, patch.search_block)
             IN  IF Len(found.matches) > 1 THEN Result("false", fsys)
                 ELSE IF dry \/ found.matches = <<>> THEN Result("true", fsys)
                 ELSE Splice(fsys, patch, source_lines, found)

\* apply_patch, lines 359-391: an Edit with a search block. Only
\* FileNotFoundError is caught around the read: a directory as target
\* (IsADirectoryError) or a file as parent (NotADirectoryError) raises.
ApplyReplace(fsys, patch, dry) ==
    LET node == fsys[patch.file_path]
    IN  IF NotADirectory(fsys, patch.file_path) THEN Result("raise", fsys)
        ELSE IF node.kind = "absent" THEN Result("false", fsys)
        ELSE IF node.kind = "dir" THEN Result("raise", fsys)
        ELSE LET source_lines == Readlines(node.content)
                 found == FindOccurrences(source_lines, patch.search_block)
             IN  IF Len(found.matches) # 1 THEN Result("false", fsys)
                 ELSE IF dry THEN Result("true", fsys)
                 ELSE Splice(fsys, patch, source_lines, found)

\* apply_patch: its return value ("true", "false", or "raise" for an
\* exception it does not catch) and the filesystem it leaves.
ApplyPatch(fsys, patch, dry) ==
    IF patch.delete_file THEN ApplyDelete(fsys, patch, dry)
    ELSE IF Strip(patch.search_block) = <<>> THEN ApplyCreate(fsys, patch, dry)
    ELSE ApplyReplace(fsys, patch, dry)

----------------------------------------------------------------------------
(* Parsers *)

Rep(c, n) == [i \in 1..n |-> c]

\* The marker lines of the four dialects.
MarkSearch == Rep("<", 7) \o <<SP, "S", "E", "A", "R", "C", "H">>
MarkDivider == Rep("=", 7)
MarkReplace == Rep(">", 7) \o <<SP, "R", "E", "P", "L", "A", "C", "E">>
MarkDelete == Rep("<", 7) \o <<SP, "D", "E", "L", "E", "T", "E">>
ArrowOpen == Rep("<", 4)
ArrowDivider == Rep("=", 4)
ArrowClose == Rep(">", 4)

\* s.startswith(t), s.endswith(t), t in s
StartsWith(s, t) == Len(s) >= Len(t) /\ SubSeq(s, 1, Len(t)) = t
EndsWith(s, t) == Len(s) >= Len(t) /\ SubSeq(s, Len(s) - Len(t) + 1, Len(s)) = t
Contains(s, t) == \E i \in 0..(Len(s) - Len(t)) : SubSeq(s, i + 1, i + Len(t)) = t

\* s.split(t)[0]: what stands before the first t in s (s holds t).
BeforeFirst(s, t) ==
    LET i == CHOOSE k \in 0..(Len(s) - Len(t)) :
                 /\ SubSeq(s, k + 1, k + Len(t)) = t
                 /\ \A j \in 0..(k - 1) : SubSeq(s, j + 1, j + Len(t)) # t
    IN  SubSeq(s, 1, i)

\* file_path = None
None == <<"None">>

\* The locals of a parser; out is what it has yielded, raised whether it
\* ended with an exception.
ParserStart ==
    [state |-> "idle", previous_line |-> <<>>, file_path |-> None,
     search_lines |-> <<>>, replace_lines |-> <<>>, out |-> <<>>,
     raised |-> FALSE]

\* The body of the search and replace states, which the three block parsers
\* share but for the marker lines and the yielded file_path.
BlockStep(st, line, divider, close, path) ==
    LET stripped_line == Strip(line)
    IN  IF st.state = "in_search"
        THEN IF stripped_line = divider
             THEN [st EXCEPT !.state = "in_replace"]
             ELSE [st EXCEPT !.search_lines = Append(@, line)]
        ELSE IF stripped_line = close
             THEN IF path = None
                  THEN [st EXCEPT !.raised = TRUE]
                  ELSE [st EXCEPT
                          !.out = Append(@, Edit(path, Concat(st.search_lines),
                                                 Concat(st.replace_lines), FALSE)),
                          !.state = "idle",
                          !.previous_line = <<>>]
             ELSE [st EXCEPT !.replace_lines = Append(@, line)]

\* FencedStep with file_path = potential_path even when that is empty.
FencedStepForgetsPath(st, line) ==
    LET stripped_line == Strip(line)
    IN  IF st.state = "idle"
        THEN IF stripped_line = MarkSearch
             THEN [st EXCEPT
                     !.file_path = Strip(st.previous_line),
                     !.state = "in_search",
                     !.search_lines = <<>>,
                     !.replace_lines = <<>>]
             ELSE [st EXCEPT !.previous_line =
                                 IF stripped_line # <<>> THEN line ELSE <<>>]
        ELSE BlockStep(st, line, MarkDivider, MarkReplace,
                       IF st.file_path = None THEN None ELSE Strip(st.file_path))

\* parse_diff_fenced, lines 26-62: one line. file_path.strip() on None
\* raises AttributeError.
FencedStep(st, line) ==
    LET stripped_line == Strip(line)
    IN  IF st.state = "idle"
        THEN IF stripped_line = MarkSearch
             THEN LET potential_path == Strip(st.previous_line)
                  IN  [st EXCEPT
                         !.file_path = IF potential_path # <<>>
                                       THEN potential_path ELSE @,
                         !.state = "in_search",
                         !.search_lines = <<>>,
                         !.replace_lines = <<>>]
             ELSE [st EXCEPT !.previous_line =
                                 IF stripped_line # <<>> THEN line ELSE <<>>]
        ELSE BlockStep(st, line, MarkDivider, MarkReplace,
                       IF st.file_path = None THEN None ELSE Strip(st.file_path))

\* ArrowStep with the opener test startswith("<<<<"), without the space.
ArrowStepOpensOnPrefix(st, line) ==
    LET stripped_line == Strip(line)
    IN  IF st.state = "idle"
        THEN IF /\ StartsWith(stripped_line, ArrowOpen)
                /\ ~StartsWith(stripped_line, Rep("<", 7))
             THEN [st EXCEPT
                     !.file_path = Strip(SubSeq(stripped_line, 6,
                                                Len(stripped_line))),
                     !.state = "in_search",
                     !.search_lines = <<>>,
                     !.replace_lines = <<>>]
             ELSE st
        ELSE BlockStep(st, line, ArrowDivider, ArrowClose, st.file_path)

\* parse_arrow_blocks, lines 81-109: one line.
ArrowStep(st, line) ==
    LET stripped_line == Strip(line)
    IN  IF st.state = "idle"
        THEN IF /\ StartsWith(stripped_line, ArrowOpen \o <<SP>>)
                /\ ~StartsWith(stripped_line, Rep("<", 7))
             THEN [st EXCEPT
                     !.file_path = Strip(SubSeq(stripped_line, 6,
                                                Len(stripped_line))),
                     !.state = "in_search",
                     !.search_lines = <<>>,
                     !.replace_lines = <<>>]
             ELSE st
        ELSE BlockStep(st, line, ArrowDivider, ArrowClose, st.file_path)

\* SourceDestStep without the "if not file_path: continue" guard.
SourceDestStepNoPathCheck(st, line) ==
    LET stripped_line == Strip(line)
    IN  IF st.state = "idle"
        THEN IF /\ StartsWith(stripped_line, ArrowClose \o <<SP>>)
                /\ ~StartsWith(stripped_line, Rep(">", 7))
             THEN [st EXCEPT !.file_path =
                      Strip(SubSeq(stripped_line, 6, Len(stripped_line)))]
             ELSE IF stripped_line = ArrowOpen
             THEN [st EXCEPT !.state = "in_search",
                             !.search_lines = <<>>,
                             !.replace_lines = <<>>]
             ELSE st
        ELSE BlockStep(st, line, ArrowDivider, ArrowClose, st.file_path)

\* parse_source_dest_blocks, lines 129-161: one line.
SourceDestStep(st, line) ==
    LET stripped_line == Strip(line)
    IN  IF st.state = "idle"
        THEN IF /\ StartsWith(stripped_line, ArrowClose \o <<SP>>)
                /\ ~StartsWith(stripped_line, Rep(">", 7))
             THEN [st EXCEPT !.file_path =
                      Strip(SubSeq(stripped_line, 6, Len(stripped_line)))]
             ELSE IF stripped_line = ArrowOpen
             THEN IF st.file_path = None \/ st.file_path = <<>>
                  THEN st
                  ELSE [st EXCEPT !.state = "in_search",
                                  !.search_lines = <<>>,
                                  !.replace_lines = <<>>]
             ELSE st
        ELSE BlockStep(st, line, ArrowDivider, ArrowClose, st.file_path)

\* DeleteStep without the "if file_path" test.
DeleteStepKeepsBlank(st, raw) ==
    LET line == Strip(raw)
    IN  IF EndsWith(line, MarkDelete)
        THEN [st EXCEPT !.out = Append(@, Edit(Strip(BeforeFirst(line, MarkDelete)),
                                               <<>>, <<>>, TRUE))]
        ELSE st

\* parse_delete_commands, lines 170-183: one line.
DeleteStep(st, raw) ==
    LET line == Strip(raw)
    IN  IF EndsWith(line, MarkDelete)
        THEN LET file_path == Strip(BeforeFirst(line, MarkDelete))
             IN  IF file_path # <<>>
                 THEN [st EXCEPT !.out = Append(@, Edit(file_path, <<>>, <<>>, TRUE))]
                 ELSE st
        ELSE st

\* The for loop of a parser over lines i.., which an exception ends.
RECURSIVE ParseFrom(_, _, _, _)
ParseFrom(dialect, lines, i, st) ==
    IF i > Len(lines) \/ st.raised THEN st
    ELSE ParseFrom(dialect, lines, i + 1,
                   CASE dialect = "fenced" -> FencedStep(st, lines[i])
                     [] dialect = "arrow" -> ArrowStep(st, lines[i])
                     [] dialect = "source_dest" -> SourceDestStep(st, lines[i])
                     [] dialect = "delete" -> DeleteStep(st, lines[i]))

\* ParseDiffFenced with the block under construction yielded at the end of
\* the input.
ParseDiffFencedFlushes(patch_content) ==
    LET st == ParseFrom("fenced", SplitlinesKeepends(patch_content), 1,
                        ParserStart)
    IN  IF st.state # "idle" /\ ~st.raised /\ st.file_path # None
        THEN [st EXCEPT !.out = Append(@, Edit(Strip(st.file_path),
                                               Concat(st.search_lines),
                                               Concat(st.replace_lines), FALSE))]
        ELSE st

ParseDiffFenced(patch_content) ==
    ParseFrom("fenced", SplitlinesKeepends(patch_content), 1, ParserStart)
ParseArrowBlocks(patch_content) ==
    ParseFrom("arrow", SplitlinesKeepends(patch_content), 1, ParserStart)
ParseSourceDestBlocks(patch_content) ==
    ParseFrom("source_dest", SplitlinesKeepends(patch_content), 1, ParserStart)
ParseDeleteCommands(patch_content) ==
    ParseFrom("delete", Splitlines(patch_content), 1, ParserStart)

Parse(dialect, patch_content) ==
    CASE dialect = "fenced" -> ParseDiffFenced(patch_content)
      [] dialect = "arrow" -> ParseArrowBlocks(patch_content)
      [] dialect = "source_dest" -> ParseSourceDestBlocks(patch_content)
      [] dialect = "delete" -> ParseDeleteCommands(patch_content)

\* re.search(r"^>>>> ", patch_content, re.MULTILINE): the text or a line
\* after a line feed starts with ">>>> ".
LineStartsSourceDest(patch_content) ==
    \/ StartsWith(patch_content, ArrowClose \o <<SP>>)
    \/ Contains(patch_content, <<LF>> \o ArrowClose \o <<SP>>)

\* main, lines 432-445: the dialect whose parser runs.
Detect(patch_content) ==
    IF Contains(patch_content, MarkSearch) THEN "fenced"
    ELSE IF Contains(patch_content, <<SP>> \o MarkDelete) THEN "delete"
    ELSE IF LineStartsSourceDest(patch_content) THEN "source_dest"
    ELSE "arrow"

----------------------------------------------------------------------------
(* Inputs of the model *)

\* Longest batch of Edits.
MaxBatch == 3
\* Most lines in a generated file content or search block.
MaxLines == 2

Paths == {"f", "g"}
\* A directory and a path inside it.
TreePaths == {"d", "d/h"}
AllPaths == Paths \cup TreePaths
\* A filesystem with nothing at the tree paths.
Flat(fsys) == [p \in AllPaths |-> IF p \in Paths THEN fsys[p] ELSE Absent]

\* The lines that generated texts are made of.
LineSet == {<<>>, <<"a">>, <<SP, "a">>, <<FF, "a">>}

RECURSIVE JoinLF(_)
JoinLF(ls) ==
    IF ls = <<>> THEN <<>>
    ELSE IF Len(ls) = 1 THEN ls[1]
    ELSE ls[1] \o <<LF>> \o JoinLF(Tail(ls))

LineSeqs(n) == UNION {[1..k -> LineSet] : k \in 0..n}

\* Up to n lines joined by line feeds, with or without a final line feed.
Texts(n) ==
    {JoinLF(ls) : ls \in LineSeqs(n)} \cup {JoinLF(ls) \o <<LF>> : ls \in LineSeqs(n)}

ReplaceBlocks == {<<>>, <<"b">>, <<"b", LF>>}

\* Inputs of the batch runs: few texts, several Edits.
RunContents == {<<>>, <<SP, LF>>, <<"a", LF>>, <<"a", LF, "a", LF>>}
RunNodes == {Absent} \cup {File(c) : c \in RunContents}
RunEdits ==
    {Edit(p, <<>>, <<>>, TRUE) : p \in Paths}
    \cup {Edit(p, s, <<"b", LF>>, FALSE) : p \in Paths, s \in {<<>>, <<"a">>}}
    \cup {Edit("d/h", <<>>, <<"b", LF>>, FALSE)}
Batches(edits, n) == UNION {[1..k -> edits] : k \in 0..n}

\* The filesystems of the batch runs: every flat one, and one where the
\* directory part of "d/h" names a regular file.
RunTrees ==
    {Flat(fsys) : fsys \in [Paths -> RunNodes]}
    \cup {[p \in AllPaths |-> IF p = "d" THEN File(<<"a", LF>>) ELSE Absent]}

\* Inputs of the single-Edit runs: one Edit on "f", many texts.
UnitNodes ==
    {Absent, Dir, File(<<LF, SP, LF>>)} \cup {File(c) : c \in Texts(MaxLines)}
UnitEdits ==
    {Edit("f", s, r, FALSE) : s \in Texts(MaxLines), r \in ReplaceBlocks}
    \cup {Edit("f", s, r, TRUE) : s \in {<<>>, <<"a">>}, r \in {<<>>, <<"b">>}}
    \cup {MoveEdit("f", dest) : dest \in {"g", "d/h"}}

\* Inputs of the calls of apply_patch on its own: a directory tree, one
\* Edit on a path of the tree.
ApplyContents == {<<>>, <<SP, LF>>, <<"a", LF>>, <<"a", LF, SP, "a", LF>>}
ApplyTrees ==
    {[p \in TreePaths |-> Absent],
     [p \in TreePaths |-> IF p = "d" THEN File(<<"a", LF>>) ELSE Absent]}
    \cup {[p \in TreePaths |-> IF p = "d" THEN Dir ELSE n] :
             n \in {Absent, Dir} \cup {File(c) : c \in ApplyContents}}
ApplyEdits ==
    {Edit(p, s, r, FALSE) :
        p \in TreePaths, s \in {<<>>, <<SP>>, <<"a">>}, r \in ReplaceBlocks}
    \cup {Edit(p, <<>>, <<>>, TRUE) : p \in TreePaths}
    \cup {MoveEdit("d/h", "g"), MoveEdit("f", "d/h"), MoveEdit("d/h", "f")}

\* Most lines in a generated patch text.
MaxInputLines == 4

\* Each line followed by a line feed.
Lined(ls) == Concat([i \in 1..Len(ls) |-> ls[i] \o <<LF>>])
LinedTexts(lineset, n) == {Lined(ls) : ls \in UNION {[1..k -> lineset] : k \in 0..n}}

\* A code-fence opener: three fence characters, written "~" here.
Fence == Rep("~", 3)

\* The lines the generated patch texts are made of, per dialect: marker
\* lines, path lines, a blank line, lines that nearly are markers.
FencedLines ==
    {<<"p">>, MarkSearch, MarkDivider, MarkReplace, <<>>, Fence,
     <<"q", SP>> \o MarkDelete}
ArrowLines ==
    {ArrowOpen \o <<SP, "p">>, ArrowDivider, ArrowClose, <<"a">>,
     Rep("<", 5) \o <<SP, "p">>, Rep("<", 7) \o <<SP, "p">>,
     <<"q", SP>> \o MarkDelete}
SourceDestLines ==
    {ArrowClose \o <<SP, "p">>, ArrowOpen, ArrowDivider, ArrowClose, <<"a">>,
     <<"q", SP>> \o MarkDelete}
DeleteLines ==
    {<<"p", SP>> \o MarkDelete, <<SP>> \o MarkDelete, <<"p">> \o MarkDelete,
     <<"p", SP>> \o MarkDelete \o <<SP, "x">>, <<"p">>,
     <<"q", SP>> \o MarkDelete \o <<SP>> \o MarkDelete}
DetectLines ==
    {MarkSearch, <<"p", SP>> \o MarkDelete, <<SP>> \o MarkDelete,
     <<"p">> \o MarkDelete, ArrowClose \o <<SP, "p">>,
     <<SP>> \o ArrowClose \o <<SP, "p">>, MarkReplace,
     ArrowOpen \o <<SP, "p">>}

\* A complete fenced section.
Section(search, replace) ==
    <<MarkSearch>> \o search \o <<MarkDivider>> \o replace \o <<MarkReplace>>
\* Two fenced sections, with lines before the first and between the two.
SectionedTexts ==
    {Lined(h \o Section(s1, <<>>) \o m \o Section(s2, r2)) :
        h \in {<<>>, << <<"p">> >>, << <<"p">>, <<>> >>, << <<"p">>, Fence >>},
        s1 \in {<<>>, << <<"a">> >>},
        m \in {<<>>, << <<"q">> >>, << <<>> >>, << <<"q">>, <<>> >>,
               << <<"q">>, Fence >>},
        s2 \in {<<>>, << <<"a">> >>},
        r2 \in {<<>>, << <<"b">> >>}}

\* A fenced section, then one whose terminator never comes.
UnterminatedTexts ==
    {Lined(h \o Section(s1, <<>>) \o m \o t) :
        h \in {<<>>, << <<"p">> >>},
        s1 \in {<<>>, << <<"a">> >>},
        m \in {<<>>, << <<"q">> >>, << <<>> >>},
        t \in {<<MarkSearch>>, <<MarkSearch, <<"a">> >>,
               <<MarkSearch, MarkDivider>>,
               <<MarkSearch, <<"a">>, MarkDivider, <<"b">> >>}}

\* A source/destination block without its path declaration.
Triple(search, replace) ==
    <<ArrowOpen>> \o search \o <<ArrowDivider>> \o replace \o <<ArrowClose>>
\* Two source/destination blocks, with or without declarations before the
\* first, inside the first and between the two.
SourceDestTexts ==
    {Lined(h \o Triple(s1, <<>>) \o m \o Triple(<<>>, r2)) :
        h \in {<<>>, <<ArrowClose \o <<SP, "p">> >>,
               <<ArrowOpen, ArrowClose \o <<SP, "p">> >>},
        s1 \in {<<>>, << <<"a">> >>, <<ArrowClose \o <<SP, "q">> >>},
        m \in {<<>>, << <<"a">> >>, <<ArrowClose \o <<SP, "q">> >>},
        r2 \in {<<>>, << <<"b">> >>}}

\* The texts each function is called on.
ParseInputs(fn) ==
    CASE fn = "fenced" -> LinedTexts(FencedLines, MaxInputLines)
                          \cup SectionedTexts \cup UnterminatedTexts
      [] fn = "arrow" -> LinedTexts(ArrowLines, MaxInputLines)
      [] fn = "source_dest" -> LinedTexts(SourceDestLines, MaxInputLines)
                               \cup SourceDestTexts
      [] fn = "delete" -> LinedTexts(DeleteLines, MaxInputLines)
      [] fn = "main" -> LinedTexts(DetectLines, MaxInputLines - 1)
                        \cup LinedTexts(ArrowLines, MaxInputLines - 1)
Dialects == {"fenced", "arrow", "source_dest", "delete"}

----------------------------------------------------------------------------
(* State *)

VARIABLES
    fs,             \* the filesystem: path -> node
    fs0,            \* the filesystem when main started
    patches,        \* the parsed batch
    dry_run,        \* args.dry_run
    pc,             \* position in main
    idx,            \* number of patches the apply loop has consumed
    errors,         \* the error list run_preflight_checks returned
    results,        \* the return values of apply_patch so far, in order
    success_count,
    fail_count,
    exit_code,      \* -1 while the process runs
    m_source_lines, \* find_occurrences called on its own: arguments,
    m_search_block,
    m_pc,
    m_result,       \* and what it returned
    p_fn,           \* a parser, or the detector with the parser it selects,
    p_text,         \* called on its own: the function, the text,
    p_pc,
    p_dialect,      \* the dialect that was parsed
    p_out           \* and the locals of the parser when it ended

vars == <<fs, fs0, patches, dry_run, pc, idx, errors, results, success_count,
          fail_count, exit_code, m_source_lines, m_search_block, m_pc, m_result,
          p_fn, p_text, p_pc, p_dialect, p_out>>

mainVars == <<fs, fs0, patches, dry_run, pc, idx, errors, results, success_count,
              fail_count, exit_code>>
matchVars == <<m_source_lines, m_search_block, m_pc, m_result>>
parseVars == <<p_fn, p_text, p_pc, p_dialect, p_out>>

NoResult == [matches |-> <<>>, length |-> -1]

MainStart(fsys, ps, dry) ==
    /\ fs = fsys
    /\ fs0 = fsys
    /\ patches = ps
    /\ dry_run = dry
    /\ pc = "preflight"
    /\ idx = 0
    /\ errors = <<>>
    /\ results = <<>>
    /\ success_count = 0
    /\ fail_count = 0
    /\ exit_code = -1

MainOff ==
    /\ fs = [p \in AllPaths |-> Absent]
    /\ fs0 = [p \in AllPaths |-> Absent]
    /\ patches = <<>>
    /\ dry_run = FALSE
    /\ pc = "off"
    /\ idx = 0
    /\ errors = <<>>
    /\ results = <<>>
    /\ success_count = 0
    /\ fail_count = 0
    /\ exit_code = -1

MatchOff ==
    /\ m_source_lines = <<>>
    /\ m_search_block = <<>>
    /\ m_pc = "off"
    /\ m_result = NoResult

ParseOff ==
    /\ p_fn = "none"
    /\ p_text = <<>>
    /\ p_pc = "off"
    /\ p_dialect = "none"
    /\ p_out = ParserStart

\* A batch run of main.
Init ==
    /\ \E fsys \in RunTrees, ps \in Batches(RunEdits, MaxBatch),
          dry \in BOOLEAN :
          MainStart(fsys, ps, dry)
    /\ MatchOff
    /\ ParseOff

\* A run of main on at most one Edit.
InitUnit ==
    /\ \E n \in UnitNodes, ps \in Batches(UnitEdits, 1), dry \in BOOLEAN :
          MainStart(Flat([p \in Paths |->
                              IF p = "f" THEN n ELSE File(<<"a", LF>>)]),
                    ps, dry)
    /\ MatchOff
    /\ ParseOff

\* A call of find_occurrences on the lines of a file.
InitMatch ==
    /\ MainOff
    /\ \E c \in Texts(MaxLines), b \in Texts(MaxLines) :
          /\ m_source_lines = Readlines(c)
          /\ m_search_block = b
    /\ m_pc = "call"
    /\ m_result = NoResult
    /\ ParseOff

\* A call of apply_patch on its own, as the tests of the repository make it.
InitApply ==
    /\ \E t \in ApplyTrees, e \in ApplyEdits, dry \in BOOLEAN :
          /\ fs = [p \in AllPaths |-> IF p \in TreePaths THEN t[p]
                                       ELSE IF p = "f" THEN File(<<"a", LF>>)
                                       ELSE Absent]
          /\ fs0 = fs
          /\ patches = <<e>>
          /\ dry_run = dry
    /\ pc = "call"
    /\ idx = 0
    /\ errors = <<>>
    /\ results = <<>>
    /\ success_count = 0
    /\ fail_count = 0
    /\ exit_code = -1
    /\ MatchOff
    /\ ParseOff

\* A call of one parser, or of the detector and the parser it selects, on
\* a patch text.
InitParse ==
    /\ MainOff
    /\ MatchOff
    /\ p_fn \in Dialects \cup {"main"}
    /\ p_text \in ParseInputs(p_fn)
    /\ p_pc = "call"
    /\ p_dialect = "none"
    /\ p_out = ParserStart

----------------------------------------------------------------------------
(* main *)

\* main, lines 446-448: no patch was parsed.
NoPatches ==
    /\ pc = "preflight"
    /\ patches = <<>>
    /\ pc' = "done"
    /\ exit_code' = 0
    /\ UNCHANGED <<fs, fs0, patches, dry_run, idx, errors, results,
                   success_count, fail_count>>
    /\ UNCHANGED matchVars
    /\ UNCHANGED parseVars

\* PreflightFail without the sys.exit(1): the apply loop runs all the same.
PreflightFailNoExit ==
    /\ pc = "preflight"
    /\ patches # <<>>
    /\ RunPreflightChecks(fs, patches) # <<>>
    /\ errors' = RunPreflightChecks(fs, patches)
    /\ pc' = "apply"
    /\ UNCHANGED <<fs, fs0, patches, dry_run, idx, results, success_count,
                   fail_count, exit_code>>
    /\ UNCHANGED matchVars
    /\ UNCHANGED parseVars

\* main, lines 450-457: preflight failed, the run aborts.
PreflightFail ==
    /\ pc = "preflight"
    /\ patches # <<>>
    /\ RunPreflightChecks(fs, patches) # <<>>
    /\ errors' = RunPreflightChecks(fs, patches)
    /\ pc' = "done"
    /\ exit_code' = 1
    /\ UNCHANGED <<fs, fs0, patches, dry_run, idx, results, success_count,
                   fail_count>>
    /\ UNCHANGED matchVars
    /\ UNCHANGED parseVars

\* main, lines 450-462: preflight passed, the apply loop starts.
PreflightPass ==
    /\ pc = "preflight"
    /\ patches # <<>>
    /\ RunPreflightChecks(fs, patches) = <<>>
    /\ errors' = <<>>
    /\ pc' = "apply"
    /\ UNCHANGED <<fs, fs0, patches, dry_run, idx, results, success_count,
                   fail_count, exit_code>>
    /\ UNCHANGED matchVars
    /\ UNCHANGED parseVars

\* ApplyNext with a break on the first failed apply_patch.
ApplyNextStopsOnFailure ==
    /\ pc = "apply"
    /\ idx < Len(patches)
    /\ LET r == ApplyPatch(fs, patches[idx + 1], dry_run)
       IN  /\ fs' = r.fs
           /\ idx' = IF r.ret = "false" THEN Len(patches) ELSE idx + 1
           /\ results' = Append(results, r.ret)
           /\ success_count' = IF r.ret = "true" THEN success_count + 1
                               ELSE success_count
           /\ fail_count' = IF r.ret = "false" THEN fail_count + 1 ELSE fail_count
           /\ pc' = IF r.ret = "raise" THEN "done" ELSE "apply"
           /\ exit_code' = IF r.ret = "raise" THEN 1 ELSE exit_code
    /\ UNCHANGED <<fs0, patches, dry_run, errors>>
    /\ UNCHANGED matchVars
    /\ UNCHANGED parseVars

\* main, lines 463-467: one iteration of the apply loop.
ApplyNext ==
    /\ pc = "apply"
    /\ idx < Len(patches)
    /\ LET r == ApplyPatch(fs, patches[idx + 1], dry_run)
       IN  /\ fs' = r.fs
           /\ idx' = idx + 1
           /\ results' = Append(results, r.ret)
           /\ success_count' = IF r.ret = "true" THEN success_count + 1
                               ELSE success_count
           /\ fail_count' = IF r.ret = "false" THEN fail_count + 1 ELSE fail_count
           /\ pc' = IF r.ret = "raise" THEN "done" ELSE "apply"
           /\ exit_code' = IF r.ret = "raise" THEN 1 ELSE exit_code
    /\ UNCHANGED <<fs0, patches, dry_run, errors>>
    /\ UNCHANGED matchVars
    /\ UNCHANGED parseVars

\* Summary without the final sys.exit(1).
SummaryExitsZero ==
    /\ pc = "apply"
    /\ idx = Len(patches)
    /\ pc' = "done"
    /\ exit_code' = 0
    /\ UNCHANGED <<fs, fs0, patches, dry_run, idx, errors, results,
                   success_count, fail_count>>
    /\ UNCHANGED matchVars
    /\ UNCHANGED parseVars

\* main, lines 469-475: the summary and the exit status.
Summary ==
    /\ pc = "apply"
    /\ idx = Len(patches)
    /\ pc' = "done"
    /\ exit_code' = IF fail_count > 0 THEN 1 ELSE 0
    /\ UNCHANGED <<fs, fs0, patches, dry_run, idx, errors, results,
                   success_count, fail_count>>
    /\ UNCHANGED matchVars
    /\ UNCHANGED parseVars

\* A call of find_occurrences returns.
FindCall ==
    /\ m_pc = "call"
    /\ m_result' = FindOccurrences(m_source_lines, m_search_block)
    /\ m_pc' = "ret"
    /\ UNCHANGED <<m_source_lines, m_search_block>>
    /\ UNCHANGED mainVars
    /\ UNCHANGED parseVars

\* A call of apply_patch returns or raises.
ApplyCall ==
    /\ pc = "call"
    /\ LET r == ApplyPatch(fs, patches[1], dry_run)
       IN  /\ fs' = r.fs
           /\ results' = <<r.ret>>
    /\ pc' = "ret"
    /\ UNCHANGED <<fs0, patches, dry_run, idx, errors, success_count,
                   fail_count, exit_code>>
    /\ UNCHANGED matchVars
    /\ UNCHANGED parseVars

\* A call of parse_diff_fenced ends.
CallParseDiffFenced ==
    /\ p_pc = "call"
    /\ p_fn = "fenced"
    /\ p_dialect' = "fenced"
    /\ p_out' = ParseDiffFenced(p_text)
    /\ p_pc' = "ret"
    /\ UNCHANGED <<p_fn, p_text>>
    /\ UNCHANGED mainVars
    /\ UNCHANGED matchVars

\* A call of parse_arrow_blocks ends.
CallParseArrowBlocks ==
    /\ p_pc = "call"
    /\ p_fn = "arrow"
    /\ p_dialect' = "arrow"
    /\ p_out' = ParseArrowBlocks(p_text)
    /\ p_pc' = "ret"
    /\ UNCHANGED <<p_fn, p_text>>
    /\ UNCHANGED mainVars
    /\ UNCHANGED matchVars

\* A call of parse_source_dest_blocks ends.
CallParseSourceDestBlocks ==
    /\ p_pc = "call"
    /\ p_fn = "source_dest"
    /\ p_dialect' = "source_dest"
    /\ p_out' = ParseSourceDestBlocks(p_text)
    /\ p_pc' = "ret"
    /\ UNCHANGED <<p_fn, p_text>>
    /\ UNCHANGED mainVars
    /\ UNCHANGED matchVars

\* A call of parse_delete_commands ends.
CallParseDeleteCommands ==
    /\ p_pc = "call"
    /\ p_fn = "delete"
    /\ p_dialect' = "delete"
    /\ p_out' = ParseDeleteCommands(p_text)
    /\ p_pc' = "ret"
    /\ UNCHANGED <<p_fn, p_text>>
    /\ UNCHANGED mainVars
    /\ UNCHANGED matchVars

\* main, lines 432-445: the detector selects a parser and runs it.
DetectAndParse ==
    /\ p_pc = "call"
    /\ p_fn = "main"
    /\ p_dialect' = Detect(p_text)
    /\ p_out' = Parse(Detect(p_text), p_text)
    /\ p_pc' = "ret"
    /\ UNCHANGED <<p_fn, p_text>>
    /\ UNCHANGED mainVars
    /\ UNCHANGED matchVars

Next == NoPatches \/ PreflightFail \/ PreflightPass \/ ApplyNext \/ Summary

NextMatch == FindCall

NextApply == ApplyCall

NextParse ==
    \/ CallParseDiffFenced
    \/ CallParseArrowBlocks
    \/ CallParseSourceDestBlocks
    \/ CallParseDeleteCommands
    \/ DetectAndParse

Spec == Init /\ [][Next]_vars
SpecUnit == InitUnit /\ [][Next]_vars
SpecMatch == InitMatch /\ [][NextMatch]_vars
SpecApply == InitApply /\ [][NextApply]_vars
SpecParse == InitParse /\ [][NextParse]_vars

----------------------------------------------------------------------------
(* Properties *)

Range(q) == {q[i] : i \in 1..Len(q)}

\* Edit number i of the batch passes preflight on the initial filesystem.
PassesAtStart(i) == PreflightOne(fs0, patches[i], i) = NoError
AllPassAtStart == \A i \in 1..Len(patches) : PassesAtStart(i)

\* C1: Nothing is created, written or deleted before preflight has passed
\* for the whole batch; when any Edit of the batch fails preflight,
\* apply_patch is never invoked and at exit every file is as it was at start.
C1_PreflightGate ==
    /\ pc = "preflight" => fs = fs0 /\ results = <<>>
    /\ (fs # fs0 \/ results # <<>>) => errors = <<>> /\ AllPassAtStart
    /\ (pc = "done" /\ ~AllPassAtStart)
          => fs = fs0 /\ results = <<>> /\ errors # <<>> /\ exit_code = 1

\* A batch whose first Edit is valid and whose second is not has been
\* rejected.
C1_Witness ==
    /\ pc = "done"
    /\ Len(patches) >= 2
    /\ PassesAtStart(1)
    /\ ~PassesAtStart(2)
    /\ errors # <<>>
    /\ ~dry_run

\* C2, as claimed: when the run ends, either every Edit of the batch has
\* been applied or no target file has been modified.
C2_AllOrNothing ==
    (pc = "done" /\ ~dry_run)
        => \/ (Len(results) = Len(patches) /\ Range(results) \subseteq {"true"})
           \/ fs = fs0

\* C2, amended: the batch is gated as a unit, not applied as a unit.  When
\* the run ends, either preflight failed, apply_patch was never invoked and
\* no file has been modified, or preflight passed and apply_patch has been
\* invoked once on every Edit, each call counted as succeeded or failed.
C2_GatedAsUnit ==
    pc = "done"
        => \/ errors # <<>> /\ results = <<>> /\ fs = fs0
           \/ /\ errors = <<>>
              /\ Len(results) = Len(patches)
              /\ Range(results) \subseteq {"true", "false"}
              /\ success_count + fail_count = Len(patches)
              /\ fail_count = Cardinality({i \in 1..Len(results) :
                                              results[i] = "false"})

\* A run has ended with one Edit applied and another failed.
C2_Witness ==
    /\ pc = "done"
    /\ ~dry_run
    /\ errors = <<>>
    /\ "true" \in Range(results)
    /\ "false" \in Range(results)
    /\ fs # fs0

\* The apply loop is about to run a create/overwrite Edit on a file that
\* holds non-whitespace content.
CreateOnNonEmpty ==
    /\ pc = "apply"
    /\ idx < Len(patches)
    /\ ~dry_run
    /\ IsCreate(patches[idx + 1])
    /\ fs[patches[idx + 1].file_path].kind = "file"
    /\ Strip(fs[patches[idx + 1].file_path].content) # <<>>

\* C3: An Edit with an empty search block and delete_file false never
\* overwrites a file whose content at the moment of the write contains
\* non-whitespace characters, also when several Edits name the same path.
C3_NeverOverwritesNonEmpty ==
    [][CreateOnNonEmpty => results' = Append(results, "false") /\ fs' = fs]_vars

\* The errors run_preflight_checks returned for Edit number i.
ErrorsOf(i) == {e \in Range(errors) : e.patch = i}

\* The node Edit number i names, and the number of matches of its search
\* block there, when main started.
NodeAtStart(i) == fs0[patches[i].file_path]
CountAtStart(i) ==
    Len(FindOccurrences(Readlines(NodeAtStart(i).content),
                        patches[i].search_block).matches)

\* C4: Preflight passes a Replace edit if and only if the target exists, is
\* readable and find_occurrences returns exactly one match in its lines; no
\* match fails as 'Search block not found', N > 1 matches as 'Search block is
\* ambiguous, found N times', a missing file as 'File not found'.
C4_ReplacePreflight ==
    pc # "preflight" =>
        \A i \in 1..Len(patches) :
            IsReplace(patches[i]) =>
                /\ ErrorsOf(i) = {}
                      <=> (NodeAtStart(i).kind = "file" /\ CountAtStart(i) = 1)
                /\ NodeAtStart(i).kind = "absent"
                      => ErrorsOf(i) = {Error(i, "File not found", 0)}
                /\ (NodeAtStart(i).kind = "file" /\ CountAtStart(i) = 0)
                      => ErrorsOf(i) = {Error(i, "Search block not found", 0)}
                /\ (NodeAtStart(i).kind = "file" /\ CountAtStart(i) > 1)
                      => ErrorsOf(i) =
                            {Error(i, "Search block is ambiguous, found N times",
                                   CountAtStart(i))}

\* A Replace edit whose search block occurs twice has been rejected as
\* ambiguous.
C4_Witness ==
    /\ pc = "done"
    /\ Len(patches) = 1
    /\ IsReplace(patches[1])
    /\ NodeAtStart(1).kind = "file"
    /\ CountAtStart(1) = 2
    /\ errors = <<Error(1, "Search block is ambiguous, found N times", 2)>>
    /\ results = <<>>

EmptyMsg == "Search block is empty, but target file is not empty"

\* C5, as claimed: preflight passes an empty-search Edit when the target is
\* absent or holds only whitespace, and otherwise fails it with 'Search block
\* is empty, but target file is not empty', and then nothing is applied.
C5_CreatePreflight ==
    pc # "preflight" =>
        \A i \in 1..Len(patches) :
            IsCreate(patches[i]) =>
                IF \/ NodeAtStart(i).kind = "absent"
                   \/ /\ NodeAtStart(i).kind = "file"
                      /\ Strip(NodeAtStart(i).content) = <<>>
                THEN ErrorsOf(i) = {}
                ELSE ErrorsOf(i) = {Error(i, EmptyMsg, 0)} /\ results = <<>>

\* C5, amended: as claimed for a target that is absent or a readable file;
\* a target that exists but cannot be read fails with 'Could not read
\* existing file'.  In both failing cases nothing is applied.
C5_CreatePreflightReadable ==
    pc # "preflight" =>
        \A i \in 1..Len(patches) :
            IsCreate(patches[i]) =>
                /\ NodeAtStart(i).kind = "absent" => ErrorsOf(i) = {}
                /\ (NodeAtStart(i).kind = "file"
                      /\ Strip(NodeAtStart(i).content) = <<>>)
                      => ErrorsOf(i) = {}
                /\ (NodeAtStart(i).kind = "file"
                      /\ Strip(NodeAtStart(i).content) # <<>>)
                      => ErrorsOf(i) = {Error(i, EmptyMsg, 0)} /\ results = <<>>
                /\ NodeAtStart(i).kind = "dir"
                      => /\ ErrorsOf(i) = {Error(i, "Could not read existing file", 0)}
                         /\ results = <<>>

\* An empty-search Edit on a file with non-whitespace content has been
\* rejected and the run has ended without an apply.
C5_Witness ==
    /\ pc = "done"
    /\ Len(patches) = 1
    /\ IsCreate(patches[1])
    /\ NodeAtStart(1).kind = "file"
    /\ Strip(NodeAtStart(1).content) # <<>>
    /\ errors = <<Error(1, EmptyMsg, 0)>>
    /\ results = <<>>
    /\ fs = fs0

\* C6: Preflight passes a Delete edit if and only if its path exists,
\* whatever its search and replace blocks are; a missing path fails with
\* 'File not found, cannot delete'.
C6_DeletePreflight ==
    pc # "preflight" =>
        \A i \in 1..Len(patches) :
            IsDelete(patches[i]) =>
                /\ ErrorsOf(i) = {} <=> NodeAtStart(i).kind # "absent"
                /\ NodeAtStart(i).kind = "absent"
                      => ErrorsOf(i) = {Error(i, "File not found, cannot delete", 0)}

\* A Delete edit that carries a search block has passed preflight on an
\* existing file in which that block does not occur.
C6_Witness ==
    /\ pc = "apply"
    /\ Len(patches) = 1
    /\ IsDelete(patches[1])
    /\ patches[1].search_block = <<"a">>
    /\ NodeAtStart(1).kind = "file"
    /\ CountAtStart(1) = 0
    /\ errors = <<>>

\* The 0-based indices at which sub occurs in full as a run of lines.
MatchSet(full, sub) ==
    IF sub = <<>> THEN {}
    ELSE {i \in 0..(Len(full) - Len(sub)) :
             \A j \in 1..Len(sub) : full[i + j] = sub[j]}

\* What each tier finds for the arguments of the call.
StrictFound == MatchSet(SrcStrict(m_source_lines), Splitlines(m_search_block))
TrimmedFound == MatchSet(SrcStrict(m_source_lines), TrimmedLines(m_search_block))
LooseFound == MatchSet(SrcLoose(m_source_lines), LooseLines(m_search_block))

\* C7: find_occurrences returns the matches of the first of the tiers
\* strict, trimmed, loose that has a match, with the line count of that
\* tier; a later tier adds nothing once an earlier one has matched.
C7_FirstTierWins ==
    m_pc = "ret" =>
        /\ Len(m_result.matches) = Cardinality(Range(m_result.matches))
        /\ StrictFound # {}
              => /\ Range(m_result.matches) = StrictFound
                 /\ m_result.length = Len(Splitlines(m_search_block))
        /\ (StrictFound = {} /\ TrimmedFound # {})
              => /\ Range(m_result.matches) = TrimmedFound
                 /\ m_result.length = Len(TrimmedLines(m_search_block))
        /\ (StrictFound = {} /\ TrimmedFound = {} /\ LooseFound # {})
              => /\ Range(m_result.matches) = LooseFound
                 /\ m_result.length = Len(LooseLines(m_search_block))

\* A block that matches exactly at one place and loosely at two has
\* yielded the one strict index.
C7_Witness ==
    /\ m_pc = "ret"
    /\ Cardinality(StrictFound) = 1
    /\ Cardinality(LooseFound) = 2
    /\ Range(m_result.matches) = StrictFound
    /\ Len(m_result.matches) = 1

\* The 0-based indices of the runs of source lines that equal the lines of
\* the search block once every line is stripped on both sides.
StrippedRuns ==
    LET block_lines == Splitlines(m_search_block)
    IN  MatchSet(SrcLoose(m_source_lines),
                 [j \in 1..Len(block_lines) |-> Strip(block_lines[j])])

\* C8, as claimed: find_occurrences reports a match at the start of every
\* run of source lines that equals the search lines after stripping, with
\* length the number of search lines.
C8_StrippedRunReported ==
    m_pc = "ret" =>
        \A i \in StrippedRuns :
            /\ i \in Range(m_result.matches)
            /\ m_result.length = Len(Splitlines(m_search_block))

\* C8, amended: when neither the strict nor the trimmed tier finds a
\* match, find_occurrences reports a match at the start of every run of
\* source lines that equals, after stripping each line, the lines of the
\* search block without its leading and trailing line breaks, with length
\* the number of those lines.
C8_LooseTierFinds ==
    (m_pc = "ret" /\ StrictFound = {} /\ TrimmedFound = {}) =>
        \A i \in LooseFound :
            /\ i \in Range(m_result.matches)
            /\ m_result.length = Len(TrimmedLines(m_search_block))

\* An indented source run has been found for a flat block that neither
\* the strict nor the trimmed tier matches.
C8_Witness ==
    /\ m_pc = "ret"
    /\ StrictFound = {}
    /\ TrimmedFound = {}
    /\ LooseFound = {0}
    /\ Len(m_source_lines) = 2
    /\ m_result = [matches |-> <<0>>, length |-> 2]

\* The apply loop is about to run a Replace edit on a file in which its
\* search block does not occur exactly once.
ReplaceMissAtApply ==
    /\ pc = "apply"
    /\ idx < Len(patches)
    /\ IsReplace(patches[idx + 1])
    /\ fs[patches[idx + 1].file_path].kind = "file"
    /\ Len(FindOccurrences(Readlines(fs[patches[idx + 1].file_path].content),
                           patches[idx + 1].search_block).matches) # 1

\* C9: apply_patch on a Replace edit matches against the file as it is at
\* apply time; when the number of matches is not one it returns false and
\* leaves the file unchanged, and the loop goes on to the remaining Edits,
\* so that a run that had such a failure still ends with every Edit tried.
C9_FailedReplaceContinues ==
    /\ [][ReplaceMissAtApply =>
            /\ results' = Append(results, "false")
            /\ fail_count' = fail_count + 1
            /\ fs' = fs
            /\ idx' = idx + 1
            /\ pc' = "apply"]_vars
    /\ []((pc = "done" /\ "false" \in Range(results))
            => Len(results) = Len(patches))

\* The second of three Edits was a Replace that matched at preflight and
\* no longer at apply time; it failed, and the third Edit was applied.
C9_Witness ==
    /\ pc = "done"
    /\ ~dry_run
    /\ results = <<"true", "false", "true">>
    /\ IsReplace(patches[1])
    /\ IsReplace(patches[2])
    /\ patches[2].file_path = patches[1].file_path
    /\ patches[3].file_path # patches[2].file_path
    /\ CountAtStart(2) = 1
    /\ fs[patches[3].file_path] # fs0[patches[3].file_path]

\* C10: A Replace edit whose search block is the whole current content of
\* the file leaves the file with exactly the replace block as content.
C10_FullContentReplaced ==
    (/\ pc = "done"
     /\ ~dry_run
     /\ Len(patches) = 1
     /\ IsReplace(patches[1])
     /\ NodeAtStart(1).kind = "file"
     /\ patches[1].search_block = NodeAtStart(1).content)
        => fs[patches[1].file_path] = File(patches[1].replace_block)

\* The match find_occurrences reports for the first Edit on the file as
\* main found it.
FoundAtStart(i) ==
    FindOccurrences(Readlines(NodeAtStart(i).content), patches[i].search_block)

\* The old lines before the match, the lines of the replace block, the old
\* lines after the match.
SplicedLines(i) ==
    LET old == Readlines(NodeAtStart(i).content)
        s == FoundAtStart(i).matches[1]
        n == FoundAtStart(i).length
    IN  SubSeq(old, 1, s) \o Readlines(patches[i].replace_block)
        \o SubSeq(old, s + n + 1, Len(old))

\* C11: A successful apply_patch of a Replace edit (not a dry run) leaves
\* the file so that, read back as lines, it is the old lines before the
\* match, then the lines of the replace block, then the old lines after the
\* match: no line is merged with a neighbour or lost.
C11_SpliceKeepsLines ==
    (/\ pc = "done"
     /\ ~dry_run
     /\ Len(patches) = 1
     /\ IsReplace(patches[1])
     /\ results = <<"true">>)
        => /\ fs[patches[1].file_path].kind = "file"
           /\ Readlines(fs[patches[1].file_path].content) = SplicedLines(1)

\* C12: A successful apply_patch of an Edit with an empty search block (not
\* a dry run, not a delete) leaves the target a file whose content is
\* exactly the replace block, whatever the target was before, and leaves
\* the parent of the target a directory; when the parent was missing the
\* call succeeds; no other path changes.
C12_CreateWritesReplaceBlock ==
    (/\ pc = "ret"
     /\ ~dry_run
     /\ IsCreate(patches[1]))
        => LET p == patches[1].file_path
           IN  /\ results = <<"true">> =>
                    /\ fs[p] = File(patches[1].replace_block)
                    /\ Dirname(p) # "" => fs[Dirname(p)] = Dir
                    /\ \A q \in AllPaths \ {p, Dirname(p)} : fs[q] = fs0[q]
               /\ (Dirname(p) # "" /\ ~Exists(fs0, Dirname(p)))
                    => results = <<"true">>

\* The parent directory was missing: it was made and the file written.
C12_Witness ==
    /\ pc = "ret"
    /\ ~dry_run
    /\ IsCreate(patches[1])
    /\ results = <<"true">>
    /\ patches[1].file_path = "d/h"
    /\ fs0["d"] = Absent
    /\ fs["d"] = Dir
    /\ fs["d/h"] = File(<<"b", LF>>)

\* C13: apply_patch never raises: whatever the Edit and the filesystem,
\* the call returns true or false.
C13_NeverRaises ==
    pc = "ret" => results \in {<<"true">>, <<"false">>}

\* C14: With dry_run set, a run of main changes nothing on the filesystem:
\* at every point of the run every path holds what it held at the start.
C14_DryRunChangesNothing ==
    dry_run => fs = fs0

\* A finished dry run in which a delete, a create in a missing directory and
\* a Replace edit were all reported as applied.
C14_Witness ==
    /\ pc = "done"
    /\ dry_run
    /\ results = <<"true", "true", "true">>
    /\ \E i, j, k \in 1..3 :
          /\ IsDelete(patches[i])
          /\ IsCreate(patches[j]) /\ patches[j].file_path = "d/h"
          /\ IsReplace(patches[k])
    /\ fs = fs0

\* The number of Edits apply_patch returned r for.
CountOf(r) == Cardinality({i \in 1..Len(results) : results[i] = r})

----------------------------------------------------------------------------
(* Properties of the detector and the parsers *)

\* The lines of the text the parser or the detector was called on.
TextLines == SplitlinesKeepends(p_text)

\* The least element of a set of line numbers, 0 for the empty set.
MinOf(S) == IF S = {} THEN 0 ELSE CHOOSE i \in S : \A j \in S : i <= j

\* The first line from `from` on that is the marker m, 0 when there is none.
FirstMark(lines, from, m) ==
    MinOf({i \in from..Len(lines) : Strip(lines[i]) = m})

IsPathDeclaration(line) ==
    /\ StartsWith(Strip(line), ArrowClose \o <<SP>>)
    /\ ~StartsWith(Strip(line), Rep(">", 7))

\* The number of "<" a line starts with.
LeadingAngles(l) ==
    Cardinality({n \in 1..Len(l) : SubSeq(l, 1, n) = Rep("<", n)})

\* Four or more "<", but not seven, then a space and a path.
IsLongArrowOpener(line) ==
    LET l == Strip(line)
        n == LeadingAngles(l)
    IN  n >= 4 /\ n < 7 /\ Len(l) > n + 1 /\ l[n + 1] = SP

\* The path an arrow opener line names: what follows its "<".
ArrowPath(line) ==
    LET l == Strip(line)
    IN  Strip(SubSeq(l, LeadingAngles(l) + 1, Len(l)))

\* The first line from `from` on that opens a block of the dialect.
FirstOpener(dialect, lines, from, has_path) ==
    MinOf({i \in from..Len(lines) :
        CASE dialect = "fenced" -> Strip(lines[i]) = MarkSearch
          [] dialect = "long_arrow" -> IsLongArrowOpener(lines[i])
          [] dialect = "arrow" ->
                /\ StartsWith(Strip(lines[i]), ArrowOpen \o <<SP>>)
                /\ ~StartsWith(Strip(lines[i]), Rep("<", 7))
          [] dialect = "source_dest" ->
                /\ Strip(lines[i]) = ArrowOpen
                /\ \/ has_path
                   \/ \E j \in from..(i - 1) : IsPathDeclaration(lines[j])})

DividerOf(dialect) == IF dialect = "fenced" THEN MarkDivider ELSE ArrowDivider
CloseOf(dialect) == IF dialect = "fenced" THEN MarkReplace ELSE ArrowClose

\* The completed blocks of a text, read off the text: each is the first
\* opener after the block before it, the first divider after that opener and
\* the first terminator after that divider.
RECURSIVE CompletedFrom(_, _, _, _)
CompletedFrom(dialect, lines, from, has_path) ==
    LET s == FirstOpener(dialect, lines, from, has_path)
        d == IF s = 0 THEN 0 ELSE FirstMark(lines, s + 1, DividerOf(dialect))
        r == IF d = 0 THEN 0 ELSE FirstMark(lines, d + 1, CloseOf(dialect))
    IN  IF r = 0 THEN <<>>
        ELSE <<[s |-> s, d |-> d, r |-> r]>>
             \o CompletedFrom(dialect, lines, r + 1, TRUE)

Completed(dialect) == CompletedFrom(dialect, TextLines, 1, FALSE)

SearchOf(sec) == Concat(SubSeq(TextLines, sec.s + 1, sec.d - 1))
ReplaceOf(sec) == Concat(SubSeq(TextLines, sec.d + 1, sec.r - 1))

\* The line right before the opener of the k-th block, when it belongs to
\* the stretch between the blocks; <<>> otherwise.
LineBefore(secs, k, n) ==
    LET first == IF k = 1 THEN 1 ELSE secs[k - 1].r + 1
    IN  IF secs[k].s - n >= first THEN Strip(TextLines[secs[k].s - n])
        ELSE <<>>

\* The path of the k-th fenced section: the non-blank line right before its
\* SEARCH marker, else the path of the section before it.
RECURSIVE PathOf(_, _)
PathOf(secs, k) ==
    IF LineBefore(secs, k, 1) # <<>> THEN LineBefore(secs, k, 1)
    ELSE IF k > 1 THEN PathOf(secs, k - 1)
    ELSE None

\* The '<path> <<<<<<< DELETE' lines of the text.
IsDeleteLine(raw) ==
    LET line == Strip(raw)
    IN  /\ EndsWith(line, <<SP>> \o MarkDelete)
        /\ Strip(SubSeq(line, 1, Len(line) - Len(MarkDelete))) # <<>>

\* The dialect the ordered list of marker predicates selects.
ClaimedDialect ==
    IF \E i \in 1..Len(TextLines) : Contains(TextLines[i], MarkSearch)
    THEN "fenced"
    ELSE IF \E i \in 1..Len(TextLines) : IsDeleteLine(TextLines[i])
    THEN "delete"
    ELSE IF \E i \in 1..Len(TextLines) :
                StartsWith(TextLines[i], ArrowClose \o <<SP>>)
    THEN "source_dest"
    ELSE "arrow"

\* C16: The detector selects the parser by first match: the fenced parser
\* for a text that holds the SEARCH marker, else the delete-command parser
\* for a text with a '<path> <<<<<<< DELETE' line, else the
\* source/destination parser for a text with a line beginning with '>>>> ',
\* else the arrow-block parser.
C16_DetectorOrder ==
    (p_pc = "ret" /\ p_fn = "main") => p_dialect = ClaimedDialect

C18_FenceSkipped ==
    (p_pc = "ret" /\ p_dialect = "fenced")
        => LET secs == Completed("fenced")
           IN  \A k \in 1..Len(secs) :
                  (/\ StartsWith(LineBefore(secs, k, 1), Fence)
                   /\ LineBefore(secs, k, 2) # <<>>)
                     => /\ Len(p_out.out) >= k
                        /\ p_out.out[k].file_path = LineBefore(secs, k, 2)

\* C19: No parser raises, and every Edit a parser yields has a non-empty
\* file_path: a block without a path yields nothing.
C19_NoPathNoEdit ==
    p_pc = "ret" =>
        /\ ~p_out.raised
        /\ \A k \in 1..Len(p_out.out) : p_out.out[k].file_path # <<>>

\* C20: When the input ends while a block parser is in in_search or
\* in_replace, it has yielded exactly the completed blocks of the text, each
\* with its own lines, and nothing for the block it was reading.
C20_UnterminatedDropped ==
    (/\ p_pc = "ret"
     /\ p_fn \in {"fenced", "arrow", "source_dest"}
     /\ ~p_out.raised
     /\ p_out.state \in {"in_search", "in_replace"})
        => LET secs == Completed(p_fn)
           IN  /\ Len(p_out.out) = Len(secs)
               /\ \A k \in 1..Len(secs) :
                     /\ p_out.out[k].search_block = SearchOf(secs[k])
                     /\ p_out.out[k].replace_block = ReplaceOf(secs[k])
               /\ FirstOpener(p_fn, TextLines,
                              IF secs = <<>> THEN 1 ELSE secs[Len(secs)].r + 1,
                              secs # <<>>) # 0

\* A completed block, then a block whose terminator never comes.
C20_Witness ==
    /\ p_pc = "ret"
    /\ p_fn = "fenced"
    /\ p_out.state = "in_replace"
    /\ p_out.replace_lines = << <<"b", LF>> >>
    /\ Len(p_out.out) = 1
    /\ Len(TextLines) > Completed(p_fn)[1].r

\* What parse_arrow_blocks yields when the blocks of the text are those of
\* the given opener rule: one Edit per completed block, in order, with the
\* path of its opener line, and idle at the end unless a block is open.
ArrowYields(rule) ==
    LET secs == Completed(rule)
        rest == IF secs = <<>> THEN 1 ELSE secs[Len(secs)].r + 1
    IN  /\ ~p_out.raised
        /\ Len(p_out.out) = Len(secs)
        /\ \A k \in 1..Len(secs) :
              p_out.out[k] = Edit(ArrowPath(TextLines[secs[k].s]),
                                  SearchOf(secs[k]), ReplaceOf(secs[k]), FALSE)
        /\ p_out.state = "idle" <=> FirstOpener(rule, TextLines, rest, TRUE) = 0

\* C21: In idle, parse_arrow_blocks starts a block on every line of four or
\* more "<" (but not seven) followed by a space and a path; "====" then
\* moves to in_replace and ">>>>" yields one Edit and returns to idle.
C21_ArrowFourOrMore ==
    (p_pc = "ret" /\ p_fn = "arrow") => ArrowYields("long_arrow")

\* C21 as amended: the block starts on a line of exactly four "<" followed
\* by a space and a path.
C21_ArrowExactlyFour ==
    (p_pc = "ret" /\ p_fn = "arrow") => ArrowYields("arrow")

\* A line of five "<" and a path was passed over in idle; the block that
\* follows it was yielded.
C21_Witness ==
    /\ p_pc = "ret"
    /\ p_fn = "arrow"
    /\ Len(TextLines) = 4
    /\ IsLongArrowOpener(TextLines[1])
    /\ LeadingAngles(Strip(TextLines[1])) = 5
    /\ p_out.out = <<Edit(<<"p">>, <<>>, <<>>, FALSE)>>
    /\ p_out.state = "idle"

\* The declarations among the lines from..to.
Declarations(from, to) == {j \in from..to : IsPathDeclaration(TextLines[j])}

\* The path declared last before the k-th block, in the lines outside the
\* blocks.
RECURSIVE DeclaredPath(_, _)
DeclaredPath(secs, k) ==
    LET from == IF k = 1 THEN 1 ELSE secs[k - 1].r + 1
        decls == Declarations(from, secs[k].s - 1)
    IN  IF decls # {}
        THEN LET j == CHOOSE i \in decls : \A h \in decls : h <= i
             IN  Strip(SubSeq(Strip(TextLines[j]), 6, Len(Strip(TextLines[j]))))
        ELSE IF k > 1 THEN DeclaredPath(secs, k - 1)
        ELSE None

\* C22: parse_source_dest_blocks ignores a lone "<<<<" line read before any
\* ">>>> path" line; once a path is declared it yields one Edit per
\* completed "<<<<" / "====" / ">>>>" triple, in order, each with the path
\* declared last before it, so that several triples under one declaration
\* yield several Edits with that path.
C22_SourceDestBlocks ==
    (p_pc = "ret" /\ p_fn = "source_dest")
        => LET secs == Completed("source_dest")
           IN  /\ ~p_out.raised
               /\ Len(p_out.out) = Len(secs)
               /\ \A k \in 1..Len(secs) :
                     /\ Declarations(1, secs[k].s - 1) # {}
                     /\ p_out.out[k] = Edit(DeclaredPath(secs, k),
                                            SearchOf(secs[k]),
                                            ReplaceOf(secs[k]), FALSE)
               /\ Declarations(1, Len(TextLines)) = {} =>
                     p_out.out = <<>> /\ p_out.state = "idle"

\* A lone "<<<<" first, then one declaration and two triples under it: two
\* Edits with the declared path.
C22_Witness ==
    /\ p_pc = "ret"
    /\ p_fn = "source_dest"
    /\ Len(p_out.out) = 2
    /\ Strip(TextLines[1]) = ArrowOpen
    /\ Cardinality(Declarations(1, Len(TextLines))) = 1
    /\ p_out.out[1].file_path = <<"p">>
    /\ p_out.out[2].file_path = <<"p">>

\* What stands before the marker in a line: before its first occurrence.
PrefixOf(raw) ==
    LET line == Strip(raw)
        at == MinOf({i \in 1..Len(line) :
                       /\ i + Len(MarkDelete) - 1 <= Len(line)
                       /\ SubSeq(line, i, i + Len(MarkDelete) - 1) = MarkDelete})
    IN  Strip(SubSeq(line, 1, at - 1))

\* A line that ends with the marker and has a non-blank prefix.
IsDeleteCommand(raw) ==
    /\ EndsWith(Strip(raw), MarkDelete)
    /\ PrefixOf(raw) # <<>>

\* The elements of a set of line numbers, in order.
RECURSIVE InOrder(_)
InOrder(S) == IF S = {} THEN <<>> ELSE <<MinOf(S)>> \o InOrder(S \ {MinOf(S)})

\* C23: parse_delete_commands yields, in line order, one Edit with
\* delete_file true and empty blocks for each line that ends with the marker
\* and has a non-blank prefix, the trimmed prefix being the file_path, and
\* nothing for any other line.
C23_DeleteCommands ==
    (p_pc = "ret" /\ p_fn = "delete")
        => LET at == InOrder({i \in 1..Len(TextLines) :
                                 IsDeleteCommand(TextLines[i])})
           IN  /\ ~p_out.raised
               /\ Len(p_out.out) = Len(at)
               /\ \A k \in 1..Len(at) :
                     p_out.out[k] = Edit(PrefixOf(TextLines[at[k]]),
                                         <<>>, <<>>, TRUE)

\* Two delete lines with a blank-prefix marker line between them: two Edits.
C23_Witness ==
    /\ p_pc = "ret"
    /\ p_fn = "delete"
    /\ Len(TextLines) = 3
    /\ Strip(TextLines[2]) = MarkDelete
    /\ p_out.out = <<Edit(<<"p">>, <<>>, <<>>, TRUE), Edit(<<"q">>, <<>>, <<>>, TRUE)>>

\* The delete lines of the text that stand between the blocks of the
\* dialect: in no completed block and before the block left open, if any.
DeletesBetween(dialect) ==
    LET secs == Completed(dialect)
        rest == IF secs = <<>> THEN 1 ELSE secs[Len(secs)].r + 1
        open == FirstOpener(dialect, TextLines, rest, secs # <<>>)
    IN  {i \in 1..Len(TextLines) :
            /\ IsDeleteCommand(TextLines[i])
            /\ \A k \in 1..Len(secs) : i < secs[k].s \/ i > secs[k].r
            /\ open = 0 \/ i < open}

\* C24: Each block parser yields a delete Edit for every delete line that
\* stands between its blocks, interleaved with the Edits of the blocks in
\* the order of the text.
C24_DeleteLinesInBlockParsers ==
    (p_pc = "ret" /\ p_fn \in {"fenced", "arrow", "source_dest"})
        => LET secs == Completed(p_fn)
               dels == DeletesBetween(p_fn)
               at == InOrder(dels \cup {secs[k].r : k \in 1..Len(secs)})
           IN  /\ Len(p_out.out) = Len(at)
               /\ \A n \in 1..Len(at) :
                     IF at[n] \in dels
                     THEN p_out.out[n] = Edit(PrefixOf(TextLines[at[n]]),
                                              <<>>, <<>>, TRUE)
                     ELSE ~p_out.out[n].delete_file

----------------------------------------------------------------------------
(* Properties of move Edits *)

IsMove(patch) == "move_destination" \in DOMAIN patch

\* C25: run_preflight_checks passes a move Edit only if its source exists
\* and its destination does not; a missing source fails with 'Source file
\* not found', an existing destination with 'Destination file ... already
\* exists'.
C25_MovePreflight ==
    (pc # "preflight" /\ Len(patches) = 1 /\ IsMove(patches[1]))
        => LET source == Exists(fs0, patches[1].file_path)
               dest == Exists(fs0, patches[1].move_destination)
           IN  /\ errors = <<>> => source /\ ~dest
               /\ ~source => /\ Len(errors) = 1
                             /\ errors[1].msg = "Source file not found"
               /\ (source /\ dest)
                     => /\ Len(errors) = 1
                        /\ errors[1].msg = "Destination file already exists"

\* C26: apply_patch on a move Edit whose source is a file and whose
\* destination is free leaves the source absent and the destination a file
\* with the content the source had, in a directory made when it was missing.
C26_MoveApplied ==
    (/\ pc = "ret"
     /\ ~dry_run
     /\ IsMove(patches[1])
     /\ fs0[patches[1].file_path].kind = "file"
     /\ ~Exists(fs0, patches[1].move_destination)
     /\ ~NotADirectory(fs0, patches[1].move_destination))
        => LET dest == patches[1].move_destination
           IN  /\ results = <<"true">>
               /\ fs[patches[1].file_path] = Absent
               /\ fs[dest] = fs0[patches[1].file_path]
               /\ Dirname(dest) # "" => fs[Dirname(dest)] = Dir

----------------------------------------------------------------------------
(* Properties of the whole run *)

\* What run_preflight_checks returns for Edit number i validated as a batch
\* of its own on the filesystem main started with.
Alone(i) == RunPreflightChecks(fs0, <<patches[i]>>)

\* The Edits that fail when validated alone.
FailingAlone == {i \in 1..Len(patches) : Alone(i) # <<>>}

\* C27: The preflight verdict of each Edit depends only on that Edit and on
\* the filesystem at the start of preflight, not on the other Edits of the
\* batch or their order: the error list is empty exactly when every Edit
\* passes when validated alone, and otherwise holds, in batch order, one
\* message per Edit that fails alone, the message it gets alone.
C27_PreflightPerEdit ==
    (pc # "preflight" /\ patches # <<>>)
        => /\ errors = <<>> <=> FailingAlone = {}
           /\ {errors[k].patch : k \in 1..Len(errors)} = FailingAlone
           /\ \A k \in 1..(Len(errors) - 1) : errors[k].patch < errors[k + 1].patch
           /\ \A k \in 1..Len(errors) :
                 LET alone == Alone(errors[k].patch)
                 IN  /\ Len(alone) = 1
                     /\ errors[k].msg = alone[1].msg
                     /\ errors[k].count = alone[1].count

\* A rejected batch of three Edits on one file: the first and the third fail,
\* the second is a create that passes, and the third is a delete that would
\* have passed had the create been applied before it was validated.
C27_Witness ==
    /\ pc = "done"
    /\ Len(patches) = 3
    /\ Len(errors) = 2
    /\ errors[1].patch = 1
    /\ errors[2].patch = 3
    /\ IsCreate(patches[2])
    /\ IsDelete(patches[3])
    /\ patches[3].file_path = patches[2].file_path
    /\ fs0[patches[2].file_path] = Absent

\* No two Edits of the batch name the same path, and none names the
\* directory of another.
DistinctTargets ==
    \A i, j \in 1..Len(patches) :
        /\ i # j => patches[i].file_path # patches[j].file_path
        /\ Dirname(patches[i].file_path) # patches[j].file_path

\* The target of Edit number i is as the Edit describes it: gone, holding
\* the replace block, or holding the old lines with the match replaced.
Described(i) ==
    LET node == fs[patches[i].file_path]
    IN  IF IsDelete(patches[i]) THEN node = Absent
        ELSE IF IsCreate(patches[i]) THEN node = File(patches[i].replace_block)
        ELSE node.kind = "file" /\ Readlines(node.content) = SplicedLines(i)

\* C28: When every Edit of a batch names a different file, no target is the
\* parent of another and preflight passes, every apply_patch of a run that
\* is not a dry run returns true: the run ends with failed count 0 and each
\* target in the state its own Edit describes.
C28_PreflightPassImpliesSuccess ==
    (/\ pc = "done"
     /\ ~dry_run
     /\ patches # <<>>
     /\ AllPassAtStart
     /\ DistinctTargets)
        => /\ Len(results) = Len(patches)
           /\ \A i \in 1..Len(results) : results[i] = "true"
           /\ fail_count = 0
           /\ exit_code = 0
           /\ \A i \in 1..Len(patches) : Described(i)

\* The number of Edits of ps, from number i on, for which apply_patch does
\* not return true in a run that is not a dry run and starts on fsys.
RECURSIVE RealFailuresFrom(_, _, _)
RealFailuresFrom(fsys, ps, i) ==
    IF i > Len(ps) THEN 0
    ELSE LET r == ApplyPatch(fsys, ps[i], FALSE)
         IN  (IF r.ret = "true" THEN 0 ELSE 1) + RealFailuresFrom(r.fs, ps, i + 1)

\* C29: A dry run predicts the real run: when a dry run of a batch has ended
\* with failed count 0, a run of the same batch on the same initial
\* filesystem that is not a dry run has no failed Edit either, also when
\* several Edits name the same file.
C29_DryRunPredicts ==
    (/\ pc = "done"
     /\ dry_run
     /\ patches # <<>>
     /\ AllPassAtStart
     /\ fail_count = 0)
        => RealFailuresFrom(fs0, patches, 1) = 0

----------------------------------------------------------------------------
(* Properties of the result of find_occurrences *)

\* The start indices are strictly increasing, every reported run lies within
\* the source lines, and a reported run has at least one line.
MatchesWithinSource ==
    LET matches == m_result.matches
        length == m_result.length
    IN  /\ \A k \in 1..Len(matches) :
              /\ 0 <= matches[k]
              /\ matches[k] + length <= Len(m_source_lines)
        /\ \A k \in 1..(Len(matches) - 1) : matches[k] < matches[k + 1]
        /\ matches # <<>> => length >= 1

\* The search block is not empty and holds nothing but line feeds.
OnlyLineBreaks ==
    m_search_block # <<>> /\ \A k \in 1..Len(m_search_block) : m_search_block[k] = LF

\* The 0-based starts of the runs of k source lines that hold nothing but
\* line-end characters.
BlankRuns(k) ==
    InOrder({i \in 0..(Len(m_source_lines) - k) :
                \A j \in 1..k :
                    \A c \in 1..Len(m_source_lines[i + j]) :
                        m_source_lines[i + j][c] \in NewlineChars})

\* C30 as stated: find_occurrences returns strictly increasing start
\* indices i with 0 <= i and i + length <= number of source lines, with
\* length >= 1 when there is a match; a search block that is empty or holds
\* only line breaks yields no match and length 0.
C30_BlankBlockNeverMatches ==
    m_pc = "ret"
        => /\ MatchesWithinSource
           /\ (m_search_block = <<>> \/ OnlyLineBreaks)
                 => m_result = [matches |-> <<>>, length |-> 0]

\* C30, amended: the same bounds on the result; an empty search block
\* yields no match and length 0; a search block of k line breaks yields the
\* runs of k source lines that are empty up to their line end, with length
\* k, and no match and length 0 when the source has no such run.
C30_MatchesWithinSource ==
    m_pc = "ret"
        => /\ MatchesWithinSource
           /\ m_search_block = <<>>
                 => m_result = [matches |-> <<>>, length |-> 0]
           /\ OnlyLineBreaks
                 => LET k == Len(m_search_block)
                    IN  IF BlankRuns(k) = <<>>
                        THEN m_result = [matches |-> <<>>, length |-> 0]
                        ELSE m_result = [matches |-> BlankRuns(k), length |-> k]

\* A search block of one line break was looked for in two empty lines and
\* found at both.
C30_Witness ==
    /\ m_pc = "ret"
    /\ m_search_block = <<LF>>
    /\ m_source_lines = <<<<LF>>, <<LF>>>>
    /\ m_result = [matches |-> <<0, 1>>, length |-> 1]

====
